---- MODULE Spec2Model ----
(***************************************************************************)
(* Model of v3.py, the Streamlit stock-analysis dashboard:                 *)
(*   get_stock_data                  the ticker-suffix fallback loop        *)
(*   calculate_technical_indicators  SMA, EMA, RSI, MACD at the last bar   *)
(*   calculate_performance_metrics   return, volatility, Sharpe, drawdown  *)
(*   main                            one run of the script                 *)
(*                                                                         *)
(* A DataFrame is modelled by its 'Close' column, a sequence of values.    *)
(* A value is a float64 with the rounding left out: an exact rational, or  *)
(* one of the IEEE specials the libraries produce and propagate (NaN,      *)
(* +inf, -inf, and the sign of zero, which decides the sign of x / 0).     *)
(*   [k |-> "nan",  n |-> 0,  d |-> 1]    NaN                               *)
(*   [k |-> "inf",  n |-> s,  d |-> 1]    s * infinity, s in {1, -1}        *)
(*   [k |-> "num",  n |-> 0,  d |-> s]    zero of sign s                    *)
(*   [k |-> "num",  n |-> p,  d |-> q]    p / q in lowest terms, q > 0      *)
(*   [k |-> "surd", c |-> v,  rad |-> r]  v * sqrt(r), v # 0, r > 0         *)
(***************************************************************************)
EXTENDS Integers, Sequences, FiniteSets, TLC

VARIABLES pc, ticker, show_advanced, suffix_i, requests, data, full_ticker,
          indicators, performance, invoked, exception

vars == <<pc, ticker, show_advanced, suffix_i, requests, data, full_ticker,
          indicators, performance, invoked, exception>>

----------------------------------------------------------------------------
(* float arithmetic                                                        *)

Abs(x) == IF x < 0 THEN -x ELSE x

RECURSIVE Gcd(_, _)
Gcd(a, b) == IF b = 0 THEN a ELSE Gcd(b, a % b)

Lcm(a, b) == (a \div Gcd(a, b)) * b

NaN == [k |-> "nan", n |-> 0, d |-> 1]

Inf(s) == [k |-> "inf", n |-> s, d |-> 1]

Zero(s) == [k |-> "num", n |-> 0, d |-> s]

\* p / q (q # 0) in lowest terms
Rat(p, q) ==
    LET g == Gcd(Abs(p), Abs(q))
        s == IF q < 0 THEN -1 ELSE 1
    IN  IF p = 0 THEN Zero(1)
        ELSE [k |-> "num", n |-> s * ((Abs(p) \div g) * (IF p < 0 THEN -1 ELSE 1)),
              d |-> Abs(q) \div g]

Float(i) == Rat(i, 1)

IsNaN(v) == v.k = "nan"

IsZero(v) == v.k = "num" /\ v.n = 0

IsNum(v) == v.k = "num"

\* the sign bit of a non-NaN float
Sign(v) == IF v.k = "inf" THEN v.n
           ELSE IF v.n > 0 THEN 1
           ELSE IF v.n < 0 THEN -1
           ELSE v.d

Den(v) == IF v.n = 0 THEN 1 ELSE v.d

Neg(v) == IF v.k = "nan" THEN NaN
          ELSE IF v.k = "inf" THEN Inf(-v.n)
          ELSE IF v.n = 0 THEN Zero(-v.d)
          ELSE [v EXCEPT !.n = -v.n]

Add(a, b) ==
    IF a.k = "nan" \/ b.k = "nan" THEN NaN
    ELSE IF a.k = "inf" /\ b.k = "inf" THEN (IF a.n = b.n THEN a ELSE NaN)
    ELSE IF a.k = "inf" THEN a
    ELSE IF b.k = "inf" THEN b
    ELSE IF a.n = 0 /\ b.n = 0 THEN Zero(IF a.d = -1 /\ b.d = -1 THEN -1 ELSE 1)
    ELSE IF a.n = 0 THEN b
    ELSE IF b.n = 0 THEN a
    ELSE LET l == Lcm(a.d, b.d)
         IN  Rat(a.n * (l \div a.d) + b.n * (l \div b.d), l)

Sub(a, b) == Add(a, Neg(b))

Mul(a, b) ==
    IF a.k = "nan" \/ b.k = "nan" THEN NaN
    ELSE IF a.k = "inf" \/ b.k = "inf"
         THEN (IF IsZero(a) \/ IsZero(b) THEN NaN ELSE Inf(Sign(a) * Sign(b)))
    ELSE IF a.n = 0 \/ b.n = 0 THEN Zero(Sign(a) * Sign(b))
    ELSE LET g1 == Gcd(Abs(a.n), b.d)
             g2 == Gcd(Abs(b.n), a.d)
         IN  [k |-> "num",
              n |-> Sign(a) * Sign(b) * ((Abs(a.n) \div g1) * (Abs(b.n) \div g2)),
              d |-> (a.d \div g2) * (b.d \div g1)]

\* numpy float division: x / 0 is an infinity or NaN, never an exception
Div(a, b) ==
    IF a.k = "nan" \/ b.k = "nan" THEN NaN
    ELSE IF a.k = "inf" /\ b.k = "inf" THEN NaN
    ELSE IF a.k = "inf" THEN Inf(Sign(a) * Sign(b))
    ELSE IF b.k = "inf" THEN Zero(Sign(a) * Sign(b))
    ELSE IF b.n = 0 THEN (IF a.n = 0 THEN NaN ELSE Inf(Sign(a) * Sign(b)))
    ELSE IF a.n = 0 THEN Zero(Sign(a) * Sign(b))
    ELSE Mul(a, [k |-> "num", n |-> Sign(b) * b.d, d |-> Abs(b.n)])

\* a < b for non-NaN floats (-0 and +0 compare equal)
Lt(a, b) ==
    IF a.k = "inf" THEN a.n = -1 /\ ~(b.k = "inf" /\ b.n = -1)
    ELSE IF b.k = "inf" THEN b.n = 1
    ELSE LET l == Lcm(Den(a), Den(b))
         IN  a.n * (l \div Den(a)) < b.n * (l \div Den(b))

\* a == b for floats
Eq(a, b) == /\ a.k # "nan"
            /\ b.k # "nan"
            /\ ((IsZero(a) /\ IsZero(b)) \/ a = b)

Le(a, b) == Lt(a, b) \/ Eq(a, b)

FMax(a, b) == IF Lt(a, b) THEN b ELSE a

FMin(a, b) == IF Lt(b, a) THEN b ELSE a

Surd(c, r) == [k |-> "surd", c |-> c, rad |-> r]

Coef(v) == IF v.k = "surd" THEN v.c ELSE v

Rad(v) == IF v.k = "surd" THEN v.rad ELSE Float(1)

\* np.sqrt of a float
Sqrt(v) == IF v.k = "nan" THEN NaN
           ELSE IF IsZero(v) THEN v
           ELSE IF Sign(v) = -1 THEN NaN
           ELSE IF v.k = "inf" THEN v
           ELSE Surd(Float(1), v)

\* a * b where a or b may be a square root
SMul(a, b) ==
    LET c == Mul(Coef(a), Coef(b))
        r == Mul(Rad(a), Rad(b))
    IN  IF c.k # "num" \/ c.n = 0 \/ r = Float(1) THEN c ELSE Surd(c, r)

\* a / b where a or b may be a square root: x / (c sqrt r) = (x / (c r)) sqrt r
SDiv(a, b) ==
    IF b.k = "surd"
    THEN SMul(a, Surd(Div(Float(1), Mul(b.c, b.rad)), b.rad))
    ELSE LET c == Div(Coef(a), b)
         IN  IF a.k = "surd" /\ c.k = "num" /\ c.n # 0 THEN Surd(c, a.rad) ELSE c

----------------------------------------------------------------------------
(* pandas Series operations, on sequences of floats                        *)

Last(s) == s[Len(s)]

PlusScalar(c, s) == [i \in 1..Len(s) |-> Add(c, s[i])]

TimesScalar(c, s) == [i \in 1..Len(s) |-> Mul(c, s[i])]

SeriesSub(s, t) == [i \in 1..Len(s) |-> Sub(s[i], t[i])]

SeriesDiv(s, t) == [i \in 1..Len(s) |-> Div(s[i], t[i])]

\* the sum of s[from..to]
RECURSIVE SumRange(_, _, _)
SumRange(s, from, to) ==
    IF to < from THEN Zero(1) ELSE Add(SumRange(s, from, to - 1), s[to])

\* rolling(window=w, min_periods=1): the mean of what there is
rolling_mean_min_periods_1(s, w) ==
    [i \in 1..Len(s) |->
        IF i < w THEN Div(SumRange(s, 1, i), Float(i))
        ELSE Div(SumRange(s, i - w + 1, i), Float(w))]

\* Series.rolling(window=w).mean(): min_periods defaults to the window, so a
\* bar with fewer than w closes behind it (itself included) has no mean
rolling_mean(s, w) ==
    [i \in 1..Len(s) |->
        IF i < w THEN NaN ELSE Div(SumRange(s, i - w + 1, i), Float(w))]

\* ewm(span=s): alpha = 2 / (s + 1);  ewm(com=c): alpha = 1 / (1 + c)
SpanAlpha(span) == Rat(2, span + 1)

ComAlpha(com) == Rat(1, 1 + com)

\* the weights the wrong way round: alpha on the old average
EwmStep_swapped(weighted, cur, alpha) ==
    IF IsNaN(weighted) THEN cur
    ELSE IF IsNaN(cur) THEN weighted
    ELSE Add(Mul(alpha, weighted), Mul(Sub(Float(1), alpha), cur))

\* one step of ewm(adjust=False).mean(): the first observation seeds the
\* average, an equal observation leaves it as it is, any other one is
\* averaged in with weights 1 - alpha (old) and alpha (new)
EwmStep(weighted, cur, alpha) ==
    LET old_wt == Sub(Float(1), alpha)
        new_wt == alpha
    IN  IF IsNaN(weighted) THEN cur
        ELSE IF IsNaN(cur) THEN weighted
        ELSE IF Eq(weighted, cur) THEN weighted
        ELSE Div(Add(Mul(old_wt, weighted), Mul(new_wt, cur)), Add(old_wt, new_wt))

RECURSIVE EwmTo(_, _, _)
EwmTo(s, alpha, i) ==
    IF i = 0 THEN <<>>
    ELSE IF i = 1 THEN <<s[1]>>
    ELSE LET prev == EwmTo(s, alpha, i - 1)
         IN  Append(prev, EwmStep(prev[i - 1], s[i], alpha))

ewm_mean(s, alpha) == EwmTo(s, alpha, Len(s))

\* Series.diff(): the first bar has no predecessor
diff(s) == [i \in 1..Len(s) |-> IF i = 1 THEN NaN ELSE Sub(s[i], s[i - 1])]

\* Series.clip(lower=0) and Series.clip(upper=0); NaN stays NaN
clip_lower(s) ==
    [i \in 1..Len(s) |-> IF ~IsNaN(s[i]) /\ Lt(s[i], Zero(1)) THEN Zero(1) ELSE s[i]]

clip_upper(s) ==
    [i \in 1..Len(s) |-> IF ~IsNaN(s[i]) /\ Lt(Zero(1), s[i]) THEN Zero(1) ELSE s[i]]

\* the ratio close[i] / close[i-1], without the - 1
pct_change_ratio(s) ==
    [i \in 1..Len(s) |-> IF i = 1 THEN NaN ELSE Div(s[i], s[i - 1])]

\* Series.pct_change(): close[i] / close[i-1] - 1
pct_change(s) ==
    [i \in 1..Len(s) |->
        IF i = 1 THEN NaN ELSE Sub(Div(s[i], s[i - 1]), Float(1))]

\* the number of observations (non-NaN values) among s[1..i]
RECURSIVE CountTo(_, _)
CountTo(s, i) ==
    IF i = 0 THEN 0 ELSE CountTo(s, i - 1) + (IF IsNaN(s[i]) THEN 0 ELSE 1)

\* sum and product of the observations among s[1..i] (skipna)
RECURSIVE NanSumTo(_, _)
NanSumTo(s, i) ==
    IF i = 0 THEN Zero(1)
    ELSE IF IsNaN(s[i]) THEN NanSumTo(s, i - 1)
    ELSE Add(NanSumTo(s, i - 1), s[i])

RECURSIVE NanProdTo(_, _)
NanProdTo(s, i) ==
    IF i = 0 THEN Float(1)
    ELSE IF IsNaN(s[i]) THEN NanProdTo(s, i - 1)
    ELSE Mul(NanProdTo(s, i - 1), s[i])

\* prod(skipna=False): one NaN makes the product NaN
prod_keeps_nan(s) ==
    IF CountTo(s, Len(s)) < Len(s) THEN NaN ELSE NanProdTo(s, Len(s))

\* Series.prod(): NaN is skipped, the empty product is 1
prod(s) == NanProdTo(s, Len(s))

\* Series.mean(): NaN is skipped; no observation, no mean
mean(s) ==
    LET count == CountTo(s, Len(s))
    IN  IF count = 0 THEN NaN ELSE Div(NanSumTo(s, Len(s)), Float(count))

RECURSIVE SqDevTo(_, _, _)
SqDevTo(s, avg, i) ==
    IF i = 0 THEN Zero(1)
    ELSE IF IsNaN(s[i]) THEN SqDevTo(s, avg, i - 1)
    ELSE LET dev == Sub(avg, s[i])
         IN  Add(SqDevTo(s, avg, i - 1), Mul(dev, dev))

\* Series.std(): the sample standard deviation (ddof = 1) of the
\* observations; fewer than two observations have none
std(s) ==
    LET count == CountTo(s, Len(s))
        avg   == Div(NanSumTo(s, Len(s)), Float(count))
    IN  IF count <= 1 THEN NaN
        ELSE Sqrt(Div(SqDevTo(s, avg, Len(s)), Float(count - 1)))

\* Series.cumprod() / Series.cummax(): a NaN bar stays NaN and is skipped by
\* the running product / maximum.  <<series so far, running value>>
RECURSIVE CumProdTo(_, _)
CumProdTo(s, i) ==
    IF i = 0 THEN <<(<<>>), Float(1)>>
    ELSE LET prev == CumProdTo(s, i - 1)
             acc  == Mul(prev[2], s[i])
         IN  IF IsNaN(s[i]) THEN <<Append(prev[1], NaN), prev[2]>>
             ELSE <<Append(prev[1], acc), acc>>

cumprod(s) == CumProdTo(s, Len(s))[1]

RECURSIVE CumMaxTo(_, _)
CumMaxTo(s, i) ==
    IF i = 0 THEN <<(<<>>), Inf(-1)>>
    ELSE LET prev == CumMaxTo(s, i - 1)
             acc  == FMax(prev[2], s[i])
         IN  IF IsNaN(s[i]) THEN <<Append(prev[1], NaN), prev[2]>>
             ELSE <<Append(prev[1], acc), acc>>

\* the maximum of the whole series at every bar, not the running one
cummax_whole_series(s) ==
    [i \in 1..Len(s) |-> IF IsNaN(s[i]) THEN NaN ELSE CumMaxTo(s, Len(s))[2]]

cummax(s) == CumMaxTo(s, Len(s))[1]

\* Series.min(): NaN is skipped; no observation, no minimum
RECURSIVE NanMinTo(_, _)
NanMinTo(s, i) ==
    IF i = 0 THEN NaN
    ELSE LET m == NanMinTo(s, i - 1)
         IN  IF IsNaN(s[i]) THEN m
             ELSE IF IsNaN(m) THEN s[i]
             ELSE FMin(m, s[i])

min(s) == NanMinTo(s, Len(s))

----------------------------------------------------------------------------
(* the DataFrame and the engines                                           *)

\* get_stock_data's "no data": None
None == [none |-> TRUE, close |-> <<>>]

\* a DataFrame with the given 'Close' column
Frame(close) == [none |-> FALSE, close |-> close]

Raised(e) == [raised |-> TRUE, unset |-> FALSE, exc |-> e]

Returned(v) == [raised |-> FALSE, unset |-> FALSE, value |-> v]

\* lines 55-57: the per-bar change, split into gains and losses.  A bar
\* that is no loss gets -1 * 0.0, the negative zero.
up(close_prices) == clip_lower(diff(close_prices))

\* the losses left negative
down_not_negated(close_prices) == clip_upper(diff(close_prices))

down(close_prices) == TimesScalar(Float(-1), clip_upper(diff(close_prices)))

\* lines 58-59: the smoothed average gain and loss, alpha = 1/14
ema_up(close_prices) == ewm_mean(up(close_prices), ComAlpha(13))

ema_down(close_prices) == ewm_mean(down(close_prices), ComAlpha(13))

\* an RSI that is NaN whenever the average loss is zero
rsi_nan_at_zero_loss(close_prices) ==
    LET rs == SeriesDiv(ema_up(close_prices), ema_down(close_prices))
    IN  IF IsZero(Last(ema_down(close_prices))) THEN NaN
        ELSE Sub(Float(100), Div(Float(100), Add(Float(1), Last(rs))))

\* lines 60-61: rs = ema_up / ema_down, rsi = 100 - (100 / (1 + rs)).iloc[-1]
rsi(close_prices) ==
    LET rs == SeriesDiv(ema_up(close_prices), ema_down(close_prices))
    IN  Sub(Float(100),
            Last([i \in 1..Len(rs) |-> Div(Float(100), Add(Float(1), rs[i]))]))

calculate_technical_indicators(df) ==
    LET close_prices == df.close
        sma_20 == Last(rolling_mean(close_prices, 20))
        sma_50 == Last(rolling_mean(close_prices, 50))
        ema_20 == Last(ewm_mean(close_prices, SpanAlpha(20)))
        ema_50 == Last(ewm_mean(close_prices, SpanAlpha(50)))
        short_EMA == ewm_mean(close_prices, SpanAlpha(12))
        long_EMA == ewm_mean(close_prices, SpanAlpha(26))
        MACD == SeriesSub(short_EMA, long_EMA)
        signal == ewm_mean(MACD, SpanAlpha(9))
        macd_histogram == SeriesSub(MACD, signal)
    IN  IF df.none THEN Raised("TypeError")
        ELSE IF close_prices = <<>> THEN Raised("IndexError")
        ELSE Returned([LastClosePrice |-> Last(close_prices),
                       SMA20 |-> sma_20,
                       SMA50 |-> sma_50,
                       EMA20 |-> ema_20,
                       EMA50 |-> ema_50,
                       RSI |-> rsi(close_prices),
                       MACD |-> Last(MACD),
                       MACDSignal |-> Last(signal),
                       MACDHistogram |-> Last(macd_histogram)])

calculate_performance_metrics(df) ==
    LET daily_returns == pct_change(df.close)
        cumulative_return == Sub(prod(PlusScalar(Float(1), daily_returns)), Float(1))
        volatility == SMul(std(daily_returns), Sqrt(Float(252)))
        sharpe_ratio == SMul(SDiv(mean(daily_returns), std(daily_returns)),
                             Sqrt(Float(252)))
        cumulative_returns == cumprod(PlusScalar(Float(1), daily_returns))
        peak == cummax(cumulative_returns)
        drawdown == SeriesDiv(SeriesSub(cumulative_returns, peak), peak)
        max_drawdown == min(drawdown)
    IN  IF df.none THEN Raised("TypeError")
        ELSE Returned([TotalReturn |-> Mul(cumulative_return, Float(100)),
                       Volatility |-> SMul(volatility, Float(100)),
                       SharpeRatio |-> sharpe_ratio,
                       MaxDrawdown |-> Mul(max_drawdown, Float(100))])

----------------------------------------------------------------------------
(* inputs                                                                  *)

\* closes the price feed may deliver: valid prices, and a zero and a
\* negative close, which the code accepts like any other
Prices == {-1, 0, 1, 2, 4}

MaxFlat == 20

\* a run of 1..MaxFlat equal closes followed by up to two more bars.  Two
\* bars after the first change is as far as exact arithmetic goes: the
\* MACD signal's denominator grows by a factor 5 * 13 * 27 with each bar.
Tails == {<<>>} \cup {<<a>> : a \in Prices} \cup {<<a, b>> : a, b \in Prices}

Histories ==
    { [i \in 1..m |-> Float(p)] \o [i \in 1..Len(t) |-> Float(t[i])] :
        m \in 1..MaxFlat, p \in Prices, t \in Tails }

----------------------------------------------------------------------------
(* the script                                                              *)

Tickers == {"", "TCS"}

suffixes == <<".NS", ".BO", "">>

\* the full_ticker get_stock_data returns with no data: None
NoTicker == "(None)"

\* indicators and performance before the engine has run
NoResult == [raised |-> FALSE, unset |-> TRUE]

\* the chart functions read the frame's columns and index: they raise on
\* None and draw anything else
create_price_chart(df) ==
    IF df.none THEN Raised("AttributeError") ELSE Returned("fig")

create_volume_chart(df) ==
    IF df.none THEN Raised("AttributeError") ELSE Returned("fig")

create_returns_distribution(df) ==
    IF df.none THEN Raised("TypeError") ELSE Returned("fig")

MaxFeedLen == 3

\* what the price feed delivers in the runs of the whole script
FeedHistories == {h \in Histories : Len(h) <= MaxFeedLen}

Init == /\ pc = "main"
        /\ ticker \in Tickers
        /\ show_advanced \in BOOLEAN
        /\ suffix_i = 1
        /\ requests = <<>>
        /\ data = None
        /\ full_ticker = NoTicker
        /\ indicators = NoResult
        /\ performance = NoResult
        /\ invoked = {}
        /\ exception = ""

\* main, line 206: if ticker
TickerEntered == ticker # ""

main_start ==
    /\ pc = "main"
    /\ pc' = IF TickerEntered THEN "get_stock_data" ELSE "done"
    /\ UNCHANGED <<ticker, show_advanced, suffix_i, requests, data, full_ticker,
                   indicators, performance, invoked, exception>>

\* get_stock_data, one pass of the loop over suffixes.  The arguments are
\* what yf.Ticker(full_ticker).history(period='1y') does: it raises, or it
\* returns the frame history, possibly an empty one.  requests records the
\* symbols asked for and what came back.
NotEmpty(historical_data) == Len(historical_data.close) > 0

\* the loop left at the first exception
get_stock_data_try_stops_on_error(raises, history) ==
    LET full == ticker \o suffixes[suffix_i]
        found == ~raises /\ NotEmpty(history)
    IN  /\ pc = "get_stock_data"
        /\ requests' = Append(requests, [symbol |-> full, raised |-> raises,
                                          history |-> history])
        /\ IF found
           THEN /\ data' = history
                /\ full_ticker' = full
                /\ pc' = "fetched"
                /\ UNCHANGED suffix_i
           ELSE IF suffix_i < Len(suffixes) /\ ~raises
           THEN /\ suffix_i' = suffix_i + 1
                /\ UNCHANGED <<pc, data, full_ticker>>
           ELSE /\ data' = None
                /\ full_ticker' = NoTicker
                /\ pc' = "fetched"
                /\ UNCHANGED suffix_i
        /\ UNCHANGED <<ticker, show_advanced, indicators, performance, invoked,
                       exception>>

get_stock_data_try(raises, history) ==
    LET full == ticker \o suffixes[suffix_i]
        found == ~raises /\ NotEmpty(history)
    IN  /\ pc = "get_stock_data"
        /\ requests' = Append(requests, [symbol |-> full, raised |-> raises,
                                          history |-> history])
        /\ IF found
           THEN /\ data' = history
                /\ full_ticker' = full
                /\ pc' = "fetched"
                /\ UNCHANGED suffix_i
           ELSE IF suffix_i < Len(suffixes)
           THEN /\ suffix_i' = suffix_i + 1
                /\ UNCHANGED <<pc, data, full_ticker>>
           ELSE /\ data' = None
                /\ full_ticker' = NoTicker
                /\ pc' = "fetched"
                /\ UNCHANGED suffix_i
        /\ UNCHANGED <<ticker, show_advanced, indicators, performance, invoked,
                       exception>>

fetch_raises == get_stock_data_try(TRUE, None)

fetch_empty == get_stock_data_try(FALSE, Frame(<<>>))

fetch_data == \E h \in FeedHistories : get_stock_data_try(FALSE, Frame(h))

\* the branch taken whatever get_stock_data returned
DataFoundAlways == TRUE

\* main, line 210: if data is not None
DataFound == ~data.none

main_branch ==
    /\ pc = "fetched"
    /\ pc' = IF DataFound THEN "tab1" ELSE "done"
    /\ UNCHANGED <<ticker, show_advanced, suffix_i, requests, data, full_ticker,
                   indicators, performance, invoked, exception>>

\* main, lines 215-234: the price chart, the indicators, the volume chart.
\* An exception no handler catches ends the run.
tab1 ==
    LET chart == create_price_chart(data)
        ind   == calculate_technical_indicators(data)
        vol   == create_volume_chart(data)
    IN  /\ pc = "tab1"
        /\ IF chart.raised
           THEN /\ invoked' = invoked \cup {"create_price_chart"}
                /\ exception' = chart.exc
                /\ pc' = "done"
                /\ UNCHANGED indicators
           ELSE IF ind.raised
           THEN /\ invoked' = invoked \cup {"create_price_chart",
                                            "calculate_technical_indicators"}
                /\ exception' = ind.exc
                /\ pc' = "done"
                /\ UNCHANGED indicators
           ELSE /\ invoked' = invoked \cup {"create_price_chart",
                                            "calculate_technical_indicators",
                                            "create_volume_chart"}
                /\ indicators' = ind
                /\ exception' = IF vol.raised THEN vol.exc ELSE exception
                /\ pc' = IF vol.raised THEN "done" ELSE "tab2"
        /\ UNCHANGED <<ticker, show_advanced, suffix_i, requests, data,
                       full_ticker, performance>>

\* main, lines 237-251: the performance metrics, the returns histogram
tab2 ==
    LET perf == calculate_performance_metrics(data)
        dist == create_returns_distribution(data)
    IN  /\ pc = "tab2"
        /\ IF perf.raised
           THEN /\ invoked' = invoked \cup {"calculate_performance_metrics"}
                /\ exception' = perf.exc
                /\ pc' = "done"
                /\ UNCHANGED performance
           ELSE /\ invoked' = invoked \cup {"calculate_performance_metrics",
                                            "create_returns_distribution"}
                /\ performance' = perf
                /\ exception' = IF dist.raised THEN dist.exc ELSE exception
                /\ pc' = IF dist.raised THEN "done" ELSE "tab3"
        /\ UNCHANGED <<ticker, show_advanced, suffix_i, requests, data,
                       full_ticker, indicators>>

\* main, lines 254-279: the company profile, whose lookup may fail and is
\* caught, or the hint to enable it
tab3 ==
    /\ pc = "tab3"
    /\ invoked' = IF show_advanced THEN invoked \cup {"company_info"} ELSE invoked
    /\ pc' = "done"
    /\ UNCHANGED <<ticker, show_advanced, suffix_i, requests, data, full_ticker,
                   indicators, performance, exception>>

\* Streamlit runs the script again, from the top, on every change of a widget
rerun ==
    /\ pc = "done"
    /\ pc' = "main"
    /\ ticker' \in Tickers
    /\ show_advanced' \in BOOLEAN
    /\ suffix_i' = 1
    /\ requests' = <<>>
    /\ data' = None
    /\ full_ticker' = NoTicker
    /\ indicators' = NoResult
    /\ performance' = NoResult
    /\ invoked' = {}
    /\ exception' = ""

Next == \/ main_start
        \/ fetch_raises
        \/ fetch_empty
        \/ fetch_data
        \/ main_branch
        \/ tab1
        \/ tab2
        \/ tab3
        \/ rerun

Spec == Init /\ [][Next]_vars

----------------------------------------------------------------------------
(* The engines alone, on every history: the run has just fetched a frame   *)
(* with the first suffix and goes through the tabs.                        *)

EngineInit == /\ pc = "tab1"
              /\ ticker = "TCS"
              /\ show_advanced = FALSE
              /\ suffix_i = 1
              /\ data \in {Frame(h) : h \in Histories}
              /\ requests = <<[symbol |-> "TCS.NS", raised |-> FALSE,
                               history |-> data]>>
              /\ full_ticker = "TCS.NS"
              /\ indicators = NoResult
              /\ performance = NoResult
              /\ invoked = {}
              /\ exception = ""

EngineNext == tab1 \/ tab2 \/ tab3

EngineSpec == EngineInit /\ [][EngineNext]_vars

----------------------------------------------------------------------------
(* Properties                                                              *)

Closes == data.close

N == Len(Closes)

\* the closes drawn are whole numbers
CloseInt(i) == Closes[i].n

Ind == indicators.value

Perf == performance.value

IndicatorsDone == ~indicators.unset /\ ~indicators.raised

PerformanceDone == ~performance.unset /\ ~performance.raised

AllPositive == \A i \in 1..N : CloseInt(i) > 0

NoLoss == \A i \in 2..N : CloseInt(i) >= CloseInt(i - 1)

SomeGain == \E i \in 2..N : CloseInt(i) > CloseInt(i - 1)

Flat == \A i \in 1..N : CloseInt(i) = CloseInt(1)

RECURSIVE IntSum(_, _)
IntSum(from, to) == IF to < from THEN 0 ELSE IntSum(from, to - 1) + CloseInt(to)

\* C1: the reported 20-day SMA is NaN for fewer than 20 closes and the
\* arithmetic mean of the last 20 closes otherwise.
C1_SMA20 ==
    IndicatorsDone =>
        IF N < 20 THEN IsNaN(Ind.SMA20)
        ELSE Ind.SMA20 = Rat(IntSum(N - 19, N), 20)

C1_Witness ==
    /\ IndicatorsDone
    /\ N = 21
    /\ CloseInt(21) # CloseInt(1)
    /\ CloseInt(20) # CloseInt(21)
    /\ IsNum(Ind.SMA20)

\* C2: for strictly positive closes the reported RSI, when it is not NaN,
\* is a number in [0, 100].
C2_RSIRange ==
    (IndicatorsDone /\ AllPositive /\ ~IsNaN(Ind.RSI)) =>
        /\ IsNum(Ind.RSI)
        /\ Le(Float(0), Ind.RSI)
        /\ Le(Ind.RSI, Float(100))

C2_Witness ==
    /\ IndicatorsDone
    /\ AllPositive
    /\ IsNum(Ind.RSI)
    /\ Lt(Float(0), Ind.RSI)
    /\ Lt(Ind.RSI, Float(100))

\* the smoothed average loss at the last bar is exactly zero
AvgLossZero == N >= 1 /\ IsZero(Last(ema_down(Closes)))

BothDone == pc \in {"tab3", "done"} /\ IndicatorsDone /\ PerformanceDone

\* C4 as claimed: for a single bar all four metrics and all indicators but
\* the last close are undefined.
C4_SingleBarAllUndefined ==
    (BothDone /\ N = 1 /\ AllPositive) =>
        /\ IsNaN(Perf.TotalReturn) /\ IsNaN(Perf.Volatility)
        /\ IsNaN(Perf.SharpeRatio) /\ IsNaN(Perf.MaxDrawdown)
        /\ IsNaN(Ind.SMA20) /\ IsNaN(Ind.SMA50)
        /\ IsNaN(Ind.EMA20) /\ IsNaN(Ind.EMA50)
        /\ IsNaN(Ind.RSI) /\ IsNaN(Ind.MACD)
        /\ IsNaN(Ind.MACDSignal) /\ IsNaN(Ind.MACDHistogram)
        /\ Ind.LastClosePrice = Closes[1]

\* C4 as amended: for a single bar neither function raises; volatility,
\* Sharpe ratio and max drawdown are NaN and the total return is 0; both
\* SMAs and the RSI are NaN, both EMAs and the last close equal the close,
\* and MACD, its signal and its histogram are 0.
C4_SingleBar ==
    N = 1 =>
        /\ "calculate_technical_indicators" \in invoked =>
            /\ IndicatorsDone
            /\ IsNaN(Ind.SMA20) /\ IsNaN(Ind.SMA50)
            /\ IsNaN(Ind.RSI)
            /\ Ind.EMA20 = Closes[1] /\ Ind.EMA50 = Closes[1]
            /\ IsZero(Ind.MACD)
            /\ IsZero(Ind.MACDSignal)
            /\ IsZero(Ind.MACDHistogram)
            /\ Ind.LastClosePrice = Closes[1]
        /\ "calculate_performance_metrics" \in invoked =>
            /\ PerformanceDone
            /\ IsZero(Perf.TotalReturn)
            /\ IsNaN(Perf.Volatility)
            /\ IsNaN(Perf.SharpeRatio)
            /\ IsNaN(Perf.MaxDrawdown)

C4_Witness == BothDone /\ N = 1 /\ CloseInt(1) > 0

FlatResult ==
    /\ IsZero(Perf.TotalReturn)
    /\ IsNaN(Perf.SharpeRatio)
    /\ IsZero(Perf.MaxDrawdown)
    /\ IsNaN(Ind.RSI)

\* C5 as claimed: a flat positive series of two or more bars has total
\* return 0, volatility 0, max drawdown 0, and Sharpe ratio and RSI NaN.
C5_FlatFromTwoBars ==
    (BothDone /\ Flat /\ AllPositive /\ N >= 2) =>
        FlatResult /\ IsZero(Perf.Volatility)

\* C5 as amended: that holds for three or more bars; with exactly two bars
\* there is a single return, and the volatility is NaN too.
C5_FlatFromThreeBars ==
    (BothDone /\ Flat /\ AllPositive /\ N >= 2) =>
        /\ FlatResult
        /\ IF N >= 3 THEN IsZero(Perf.Volatility) ELSE IsNaN(Perf.Volatility)

C5_Witness ==
    /\ BothDone /\ Flat /\ AllPositive /\ N = 20
    /\ IsZero(Perf.Volatility)
    /\ IsNaN(Perf.SharpeRatio)

\* the highest close among bars 2..i: the running product of (1 + return)
\* at bar i is close[i] / close[1], and the first bar has no return, so the
\* running maximum P[i] is PeakClose(i) / close[1]
PeakClose(i) ==
    CHOOSE m \in {CloseInt(j) : j \in 2..i} : \A j \in 2..i : CloseInt(j) <= m

\* 100 * (C[i] - P[i]) / P[i]
DrawdownPct(i) == Rat(100 * (CloseInt(i) - PeakClose(i)), PeakClose(i))

RECURSIVE RefEma(_, _)
RefEma(span, i) ==
    IF i = 1 THEN Closes[1]
    ELSE Add(Mul(Rat(2, span + 1), Closes[i]),
             Mul(Rat(span - 1, span + 1), RefEma(span, i - 1)))

MinClose(i) == CHOOSE m \in {CloseInt(j) : j \in 1..i} : \A j \in 1..i : m <= CloseInt(j)

MaxClose(i) == CHOOSE m \in {CloseInt(j) : j \in 1..i} : \A j \in 1..i : CloseInt(j) <= m

EmaFollowsRecursion(span) ==
    LET E == ewm_mean(Closes, SpanAlpha(span))
    IN  /\ Len(E) = N
        /\ \A i \in 1..N :
            /\ Eq(E[i], RefEma(span, i))
            /\ Le(Float(MinClose(i)), E[i])
            /\ Le(E[i], Float(MaxClose(i)))

\* C7: for spans 20, 50, 12 and 26 the EMA series starts at the first
\* close, follows the recursion and stays between the least and the
\* greatest close so far; the reported EMAs are its last values, within
\* the range of the closes, and the reported MACD is EMA(12) - EMA(26).
C7_EMA ==
    IndicatorsDone =>
        /\ \A span \in {20, 50, 12, 26} : EmaFollowsRecursion(span)
        /\ Eq(Ind.EMA20, RefEma(20, N))
        /\ Eq(Ind.EMA50, RefEma(50, N))
        /\ Le(Float(MinClose(N)), Ind.EMA20) /\ Le(Ind.EMA20, Float(MaxClose(N)))
        /\ Le(Float(MinClose(N)), Ind.EMA50) /\ Le(Ind.EMA50, Float(MaxClose(N)))
        /\ Eq(Ind.MACD, Sub(RefEma(12, N), RefEma(26, N)))

C7_Witness ==
    /\ IndicatorsDone
    /\ N >= 3
    /\ Lt(Float(MinClose(N)), Ind.EMA20)
    /\ Lt(Ind.EMA20, Float(MaxClose(N)))
    /\ \A i \in 1..N : Ind.EMA20 # Closes[i]

Returned_ == pc \in {"fetched", "tab1", "tab2", "tab3", "done"} /\ TickerEntered

\* C8: an engine or a chart function is invoked only in a run with a
\* ticker, after get_stock_data returned a non-empty frame; a run whose
\* fetch failed, or with no ticker, invokes none (and a run with no ticker
\* fetches nothing).
C8_EnginesOnlyWithData ==
    /\ invoked # {} =>
        /\ TickerEntered
        /\ pc \in {"tab2", "tab3", "done"}
        /\ ~data.none
        /\ Len(data.close) > 0
    /\ (Returned_ /\ data.none) => invoked = {}
    /\ ~TickerEntered => (invoked = {} /\ requests = <<>>)

C8_Witness ==
    /\ pc = "done"
    /\ TickerEntered
    /\ data.none
    /\ Len(requests) = 3
    /\ invoked = {}

Failed(r) == r.raised \/ Len(r.history.close) = 0

\* C10: the symbols asked for are ticker + '.NS', '.BO', '' in that order;
\* while the loop runs every request so far has failed and the next suffix
\* is still to be tried; get_stock_data returns the first non-empty
\* history with its symbol, right after that request, and returns
\* (None, None) only after three failed requests.
C10_SuffixFallback ==
    /\ Len(requests) <= 3
    /\ \A i \in 1..Len(requests) :
          requests[i].symbol = ticker \o <<".NS", ".BO", "">>[i]
    /\ pc = "get_stock_data" =>
        /\ \A i \in 1..Len(requests) : Failed(requests[i])
        /\ suffix_i = Len(requests) + 1
        /\ suffix_i <= 3
    /\ Returned_ =>
        IF data.none
        THEN /\ Len(requests) = 3
             /\ \A i \in 1..3 : Failed(requests[i])
             /\ full_ticker = NoTicker
        ELSE /\ Len(requests) >= 1
             /\ \A i \in 1..(Len(requests) - 1) : Failed(requests[i])
             /\ ~Failed(requests[Len(requests)])
             /\ data = requests[Len(requests)].history
             /\ full_ticker = requests[Len(requests)].symbol
             /\ Len(data.close) > 0

C10_Witness ==
    /\ Returned_
    /\ ~data.none
    /\ Len(requests) = 3
    /\ requests[1].raised
    /\ ~requests[2].raised
    /\ full_ticker = "TCS"

\* C9 as claimed: a frame with a non-positive close is rejected: neither
\* function produces values for it.
C9_InvalidRejected ==
    (\E i \in 1..N : CloseInt(i) <= 0) =>
        (indicators.unset /\ performance.unset)
====
